---- MODULE Spec2Model ----
(***************************************************************************)
(* A model of t_lib's tensor.hpp: the layout calculator (calculate_total,  *)
(* calculate_stride) and Tensor<T> (constructor, initialize, at,           *)
(* element_wise_apply), with T = int.                                      *)
(*                                                                         *)
(* Numbers.  `int` values are modelled by mathematical integers; every     *)
(* value the bounds below can produce is far inside 32 bits, so no int     *)
(* arithmetic wraps.  A size_t value is modelled by a record               *)
(*   [big |-> b, low |-> n]                                                *)
(* that stands for n when b is FALSE (n >= 0) and for 2^64 + n when b is   *)
(* TRUE (n < 0): the result of converting the int n to size_t.             *)
(*                                                                         *)
(* Exceptions are modelled by the field `err` of the last call: the name   *)
(* says which throw statement was reached.                                 *)
(***************************************************************************)
EXTENDS Integers, Sequences, FiniteSets

\* ------------------------------------------------------------------ bounds
MaxRank == 2      \* longest shape handed to Tensor / initialize
MaxDim == 2       \* largest dimension size and largest coordinate
MaxTotal == 6     \* largest number of elements a shape handed to Tensor asks for
LayoutRank == 3   \* longest shape handed to the layout calculator alone
LayoutDim == 4    \* largest dimension size handed to the layout calculator alone

\* dimension sizes and coordinates: a negative one, zero, and 1..MaxDim
Dims == (0 - 1)..MaxDim

RECURSIVE SeqsUpTo(_, _)
SeqsUpTo(S, n) ==
    IF n = 0 THEN {<<>>}
    ELSE LET shorter == SeqsUpTo(S, n - 1)
         IN shorter \cup {Append(s, x) : s \in {t \in shorter : Len(t) = n - 1}, x \in S}

Positions == SeqsUpTo(Dims, MaxRank)
\* the positions tried on a Tensor of a rank: one shorter, as long, and one longer
\* (a position of the rank with one more coordinate in front or at the end)
PositionsFor(rank) ==
    LET same == {p \in Positions : Len(p) = rank}
    IN {p \in Positions : Len(p) = rank - 1} \cup same
       \cup {Append(p, 0) : p \in same} \cup {<<MaxDim>> \o p : p \in same}
LayoutShapes == SeqsUpTo((0 - 1)..LayoutDim, LayoutRank)

\* ------------------------------------------------------------ element type
\* T{} for T = int
DefaultT == 0

\* caller-supplied buffers: n distinct non-default values 1..n
Buf(n) == [i \in 1..n |-> i]

\* the unary operations handed to element_wise_apply
Funcs == {"identity", "succ", "square"}
Apply(f, x) ==
    CASE f = "identity" -> x
      [] f = "succ" -> x + 1
      [] f = "square" -> x * x

\* what an out-of-bounds read of the buffer may return when it does not fault
GarbageT == {DefaultT, 0 - 1}

\* ------------------------------------------------------- integer semantics
Abs(x) == IF x < 0 THEN 0 - x ELSE x

\* C++ integer division truncates towards zero (b # 0)
CDiv(a, b) ==
    LET q == Abs(a) \div Abs(b)
    IN IF (a < 0) = (b < 0) THEN q ELSE 0 - q

\* int -> size_t
ToSizeT(n) == [big |-> n < 0, low |-> n]
\* size_t -> int (keeps the low 32 bits, which hold n)
ToInt(s) == s.low
\* vector::size() compared with a size_t
SizeEq(len, s) == ~s.big /\ s.low = len
\* a size_t used as an index into / a new size of a vector of `len` elements
InRange(s, len) == ~s.big /\ s.low < len

\* --------------------------------------------------------- error outcomes
NoError == "none"
InvalidShape == "InvalidShape"          \* logic_error, tensor.hpp:11 and :23
ShapeMismatch == "ShapeMismatch"        \* logic_error, tensor.hpp:111
RankMismatch == "RankMismatch"          \* invalid_argument, tensor.hpp:120
IndexOutOfRange == "IndexOutOfRange"    \* out_of_range, tensor.hpp:126
LengthError == "LengthError"            \* length_error out of vector::resize
Trap == "Trap"                          \* the division by zero faulted

\* how an integer division by zero (undefined behaviour) turns out: the
\* instruction faults (x86 idiv), or it yields 0 (AArch64 sdiv)
DivByZeroOutcomes == {"trap", "zero"}
\* the outcomes to choose among for a shape: a choice only where a size is 0
OutcomesFor(in_shape) ==
    IF \E i \in 1..Len(in_shape) : in_shape[i] = 0 THEN DivByZeroOutcomes ELSE {"trap"}

\* ------------------------------------------------------ layout calculator
RECURSIVE TotalLoop(_, _, _)
TotalLoop(shape, i, total) ==
    IF i > Len(shape) THEN total
    ELSE TotalLoop(shape, i + 1, total * shape[i])

\* [err, total]
calculate_total(shape) ==
    IF Len(shape) = 0 THEN [err |-> InvalidShape, total |-> 0]
    ELSE [err |-> NoError, total |-> TotalLoop(shape, 2, shape[1])]

\* mutant: the loop without `total /= dim`
RECURSIVE StrideLoop_KeepsTotal(_, _, _, _, _)
StrideLoop_KeepsTotal(shape, i, total, stride, ub) ==
    IF i > Len(shape) THEN [err |-> NoError, stride |-> stride]
    ELSE IF shape[i] = 0 /\ ub = "trap" THEN [err |-> Trap, stride |-> stride]
    ELSE LET q == IF shape[i] = 0 THEN 0 ELSE CDiv(total, shape[i])
         IN StrideLoop_KeepsTotal(shape, i + 1, total, Append(stride, q), ub)

RECURSIVE StrideLoop(_, _, _, _, _)
StrideLoop(shape, i, total, stride, ub) ==
    IF i > Len(shape) THEN [err |-> NoError, stride |-> stride]
    ELSE IF shape[i] = 0 /\ ub = "trap" THEN [err |-> Trap, stride |-> stride]
    ELSE LET q == IF shape[i] = 0 THEN 0 ELSE CDiv(total, shape[i])
         IN StrideLoop(shape, i + 1, q, Append(stride, q), ub)

\* mutant: without `if(total == 0) total = calculate_total(shape)`
calculate_stride_NoDefault(shape, total, ub) ==
    IF Len(shape) = 0 THEN [err |-> InvalidShape, stride |-> <<>>]
    ELSE StrideLoop(shape, 1, total, <<>>, ub)

\* [err, stride]; total = 0 is the default argument
calculate_stride(shape, total, ub) ==
    IF Len(shape) = 0 THEN [err |-> InvalidShape, stride |-> <<>>]
    ELSE LET t == IF total = 0 THEN calculate_total(shape).total ELSE total
         IN StrideLoop(shape, 1, t, <<>>, ub)

\* the shapes handed to the constructor and to initialize
Shapes ==
    {s \in SeqsUpTo(Dims, MaxRank) :
        Len(s) = 0 \/ Abs(calculate_total(s).total) <= MaxTotal}

\* the buffers tried with a shape: none, and one fewer than, as many as and one
\* more than the shape asks for
BuffersFor(in_shape) ==
    LET n == IF Len(in_shape) = 0 THEN 0 ELSE calculate_total(in_shape).total
    IN {Buf(k) : k \in {0} \cup ({n - 1, n, n + 1} \cap Nat)}

\* ------------------------------------------------------------------ Tensor
VARIABLES
    phase,            \* "none": no Tensor yet, "live", "crashed": the process faulted
    shape,            \* std::vector<int> shape
    stride,           \* std::vector<int> stride
    elements,         \* std::vector<T> elements
    total_elements,   \* size_t total_elements
    call              \* the last call: its arguments and its outcome

vars == <<phase, shape, stride, elements, total_elements, call>>
fields == <<shape, stride, elements, total_elements>>

\* the values an uninitialised size_t member may hold
IndeterminateTotals == {ToSizeT(0), ToSizeT(5)}

\* the members of a Tensor before the constructor body runs: total_elements is
\* indeterminate, and initialize writes it before anything reads it
Fresh == [shape |-> <<>>, stride |-> <<>>, elements |-> <<>>,
          total_elements |-> ToSizeT(0)]

Self == [shape |-> shape, stride |-> stride, elements |-> elements,
         total_elements |-> total_elements]

\* std::vector<T>::resize(n) for an n that fits: keeps the first n old entries
\* and value-initialises the new ones
Resize(v, n) == [i \in 1..n |-> IF i <= Len(v) THEN v[i] ELSE DefaultT]

\* mutant: `input_elements.size() < total_elements` for `!=`
initialize_AcceptsLonger(obj, input_shape, input_elements, ub) ==
    LET o1 == [obj EXCEPT !.shape = input_shape]
        ct == calculate_total(input_shape)
    IN IF ct.err # NoError THEN [obj |-> o1, err |-> ct.err]
       ELSE
       LET o2 == [o1 EXCEPT !.total_elements = ToSizeT(ct.total)]
           cs == calculate_stride(o2.shape, ToInt(o2.total_elements), ub)
       IN IF cs.err # NoError THEN [obj |-> o2, err |-> cs.err]
          ELSE
          LET o3 == [o2 EXCEPT !.stride = cs.stride]
          IN IF Len(input_elements) = 0
             THEN IF o3.total_elements.big
                  THEN [obj |-> o3, err |-> LengthError]
                  ELSE [obj |-> [o3 EXCEPT !.elements =
                                     Resize(o3.elements, o3.total_elements.low)],
                        err |-> NoError]
             ELSE IF o3.total_elements.big
                     \/ Len(input_elements) < o3.total_elements.low
                  THEN [obj |-> o3, err |-> ShapeMismatch]
                  ELSE [obj |-> [o3 EXCEPT !.elements = input_elements],
                        err |-> NoError]

\* Tensor<T>::initialize on the object obj: [obj, err]
initialize(obj, input_shape, input_elements, ub) ==
    LET o1 == [obj EXCEPT !.shape = input_shape]
        ct == calculate_total(input_shape)
    IN IF ct.err # NoError THEN [obj |-> o1, err |-> ct.err]
       ELSE
       LET o2 == [o1 EXCEPT !.total_elements = ToSizeT(ct.total)]
           cs == calculate_stride(o2.shape, ToInt(o2.total_elements), ub)
       IN IF cs.err # NoError THEN [obj |-> o2, err |-> cs.err]
          ELSE
          LET o3 == [o2 EXCEPT !.stride = cs.stride]
          IN IF Len(input_elements) = 0
             THEN IF o3.total_elements.big
                  THEN [obj |-> o3, err |-> LengthError]
                  ELSE [obj |-> [o3 EXCEPT !.elements =
                                     Resize(o3.elements, o3.total_elements.low)],
                        err |-> NoError]
             ELSE IF ~SizeEq(Len(input_elements), o3.total_elements)
                  THEN [obj |-> o3, err |-> ShapeMismatch]
                  ELSE [obj |-> [o3 EXCEPT !.elements = input_elements],
                        err |-> NoError]

\* mutant: `flat_index += position[i]` without the stride
RECURSIVE AtLoop_NoStride(_, _, _, _)
AtLoop_NoStride(obj, position, i, flat_index) ==
    IF i > Len(obj.shape)
    THEN [err |-> NoError, flat_index |-> ToSizeT(flat_index), examined |-> i - 1]
    ELSE IF position[i] >= obj.shape[i]
    THEN [err |-> IndexOutOfRange, flat_index |-> ToSizeT(flat_index), examined |-> i]
    ELSE AtLoop_NoStride(obj, position, i + 1, flat_index + position[i])

\* the loop of Tensor<T>::at: [err, flat_index, examined]
RECURSIVE AtLoop(_, _, _, _)
AtLoop(obj, position, i, flat_index) ==
    IF i > Len(obj.shape)
    THEN [err |-> NoError, flat_index |-> ToSizeT(flat_index), examined |-> i - 1]
    ELSE IF position[i] >= obj.shape[i]
    THEN [err |-> IndexOutOfRange, flat_index |-> ToSizeT(flat_index), examined |-> i]
    ELSE AtLoop(obj, position, i + 1, flat_index + position[i] * obj.stride[i])

\* mutant: `position.size() < shape.size()` for `!=`
at_AcceptsLonger(obj, position) ==
    IF Len(position) < Len(obj.shape)
    THEN [err |-> RankMismatch, flat_index |-> ToSizeT(0), examined |-> 0]
    ELSE AtLoop(obj, position, 1, 0)

\* Tensor<T>::at up to the read of elements[flat_index]
at(obj, position) ==
    IF Len(position) # Len(obj.shape)
    THEN [err |-> RankMismatch, flat_index |-> ToSizeT(0), examined |-> 0]
    ELSE AtLoop(obj, position, 1, 0)

\* elements[flat_index] for a flat_index inside the buffer
read(obj, flat_index) == obj.elements[flat_index.low + 1]

\* mutant: the loop starts at the second element and copies the first
new_elements_SkipsFirst(obj, f) ==
    [i \in 1..Len(obj.elements) |->
        IF i = 1 THEN obj.elements[i] ELSE Apply(f, obj.elements[i])]

\* the buffer element_wise_apply builds
new_elements(obj, f) == [i \in 1..Len(obj.elements) |-> Apply(f, obj.elements[i])]

\* Tensor<T>::element_wise_apply: [obj, err] of the Tensor it constructs
element_wise_apply(obj, f, ub) ==
    initialize(Fresh, obj.shape, new_elements(obj, f), ub)

\* ----------------------------------------------------------------- actions
\* op: the function called; in_shape, in_elements, in_total, position, f: its
\* arguments; err: what it threw; ret: the value returned (at, calculate_total);
\* out: the Tensor or stride table returned; examined: how many coordinates at
\* looked at; slot: the flat index at read the buffer at
NoCall == [op |-> "none", in_shape |-> <<>>, in_elements |-> <<>>, in_total |-> 0,
           position |-> <<>>, f |-> "identity", err |-> NoError, ret |-> <<>>,
           out |-> <<>>, examined |-> 0, slot |-> <<>>]

Init ==
    /\ phase = "none"
    /\ shape = <<>>
    /\ stride = <<>>
    /\ elements = <<>>
    /\ total_elements = ToSizeT(0)
    /\ call = NoCall

SetFields(obj) ==
    /\ shape' = obj.shape
    /\ stride' = obj.stride
    /\ elements' = obj.elements
    /\ total_elements' = obj.total_elements

Idle == call.op = "none"

\* Tensor<T> t;
DefaultConstruct ==
    /\ phase = "none" /\ Idle
    /\ \E g \in IndeterminateTotals : SetFields([Fresh EXCEPT !.total_elements = g])
    /\ phase' = "live"
    /\ call' = [NoCall EXCEPT !.op = "Tensor()"]

\* Tensor<T> t(in_shape, in_elements);
Construct(in_shape, in_elements) ==
    /\ phase = "none" /\ Idle
    /\ \E ub \in OutcomesFor(in_shape) :
         \E r \in {initialize(Fresh, in_shape, in_elements, ub)} :
            /\ call' = [NoCall EXCEPT !.op = "Tensor", !.in_shape = in_shape,
                                      !.in_elements = in_elements, !.err = r.err]
            /\ IF r.err = NoError
               THEN phase' = "live" /\ SetFields(r.obj)
               ELSE /\ phase' = (IF r.err = Trap THEN "crashed" ELSE "none")
                    /\ UNCHANGED fields

\* t.initialize(in_shape, in_elements); an exception is caught by the caller
Initialize(in_shape, in_elements) ==
    /\ phase = "live" /\ Idle
    /\ \E ub \in OutcomesFor(in_shape) :
         \E r \in {initialize(Self, in_shape, in_elements, ub)} :
            /\ call' = [NoCall EXCEPT !.op = "initialize", !.in_shape = in_shape,
                                      !.in_elements = in_elements, !.err = r.err]
            /\ phase' = (IF r.err = Trap THEN "crashed" ELSE "live")
            /\ SetFields(r.obj)

\* t.at(position)
At(position) ==
    /\ phase = "live" /\ Idle
    /\ \E r \in {at(Self, position)} :
       LET c == [NoCall EXCEPT !.op = "at", !.position = position, !.err = r.err,
                               !.examined = r.examined]
       IN IF r.err # NoError
          THEN call' = c /\ phase' = phase
          ELSE IF InRange(r.flat_index, Len(elements))
          THEN /\ call' = [c EXCEPT !.slot = <<r.flat_index>>,
                                    !.ret = <<read(Self, r.flat_index)>>]
               /\ phase' = phase
          ELSE \* elements[flat_index] past the end: a fault, or whatever is there
               \/ /\ call' = [c EXCEPT !.slot = <<r.flat_index>>, !.err = Trap]
                  /\ phase' = "crashed"
               \/ /\ \E v \in GarbageT :
                       call' = [c EXCEPT !.slot = <<r.flat_index>>, !.ret = <<v>>]
                  /\ phase' = phase
    /\ UNCHANGED fields

\* t.element_wise_apply(f)
ElementWiseApply(f) ==
    /\ phase = "live" /\ Idle
    /\ \E ub \in OutcomesFor(shape) :
         \E r \in {element_wise_apply(Self, f, ub)} :
            /\ call' = [NoCall EXCEPT !.op = "element_wise_apply", !.f = f,
                                      !.err = r.err,
                                      !.out = IF r.err = NoError THEN <<r.obj>> ELSE <<>>]
            /\ phase' = (IF r.err = Trap THEN "crashed" ELSE "live")
    /\ UNCHANGED fields

\* the caller has looked at the outcome of the call and goes on
Return ==
    /\ phase # "crashed" /\ ~Idle
    /\ call' = NoCall
    /\ UNCHANGED <<phase, fields>>

\* a call is made once the outcome of the one before has been looked at
Next ==
    \/ Idle /\ DefaultConstruct
    \/ Idle /\ phase = "none" /\ \E s \in Shapes : \E e \in BuffersFor(s) : Construct(s, e)
    \/ Idle /\ phase = "live" /\ \E s \in Shapes : \E e \in BuffersFor(s) : Initialize(s, e)
    \/ Idle /\ phase = "live" /\ \E p \in PositionsFor(Len(shape)) : At(p)
    \/ Idle /\ \E f \in Funcs : ElementWiseApply(f)
    \/ Return

Spec == Init /\ [][Next]_vars

\* ------------------------------------------- the layout calculator alone
\* calculate_total(in_shape)
CalculateTotal(in_shape) ==
    /\ \E r \in {calculate_total(in_shape)} :
         call' = [NoCall EXCEPT !.op = "calculate_total", !.in_shape = in_shape,
                                !.err = r.err,
                                !.ret = IF r.err = NoError THEN <<r.total>> ELSE <<>>]
    /\ UNCHANGED <<phase, fields>>

\* calculate_stride(in_shape, in_total); in_total = 0 is calculate_stride(in_shape)
CalculateStride(in_shape, in_total) ==
    /\ \E ub \in OutcomesFor(in_shape) :
         \E r \in {calculate_stride(in_shape, in_total, ub)} :
            /\ call' = [NoCall EXCEPT !.op = "calculate_stride", !.in_shape = in_shape,
                                      !.in_total = in_total, !.err = r.err,
                                      !.out = IF r.err = NoError THEN <<r.stride>> ELSE <<>>]
            /\ phase' = (IF r.err = Trap THEN "crashed" ELSE phase)
    /\ UNCHANGED fields

\* the totals handed to calculate_stride with a shape: none, the shape's, another
TotalsFor(in_shape) ==
    {0, 1} \cup (IF Len(in_shape) = 0 THEN {} ELSE {calculate_total(in_shape).total})

LayoutNext ==
    \/ Idle /\ \E s \in LayoutShapes : CalculateTotal(s)
    \/ Idle /\ \E s \in LayoutShapes : \E t \in TotalsFor(s) : CalculateStride(s, t)
    \/ Return

SpecLayout == Init /\ [][LayoutNext]_vars

\* ---------------------------------------------------- what the claims use
\* the product of a shape's entries, by the definition of a product
RECURSIVE ProductOf(_)
ProductOf(s) == IF Len(s) = 0 THEN 1 ELSE Head(s) * ProductOf(Tail(s))

\* a shape the specification calls valid: non-empty, every dimension size >= 1
ValidShape(s) == Len(s) >= 1 /\ \A i \in 1..Len(s) : s[i] >= 1

RECURSIVE MaxOf(_)
MaxOf(s) == IF Len(s) = 0 THEN 0
            ELSE LET m == MaxOf(Tail(s)) IN IF Head(s) > m THEN Head(s) ELSE m

\* the coordinates c with 0 <= c[i] < s[i]
ValidCoords(s) ==
    {c \in [1..Len(s) -> 0..MaxOf(s)] : \A i \in 1..Len(s) : c[i] < s[i]}

\* the place of the coordinate c when the coordinates of the shape s are listed
\* with the last dimension varying fastest (0 for the first)
RECURSIVE RowMajorPlace(_, _, _)
RowMajorPlace(s, c, n) ==
    IF n = 0 THEN 0 ELSE RowMajorPlace(s, c, n - 1) * s[n] + c[n]

RECURSIVE WeightedSum(_, _, _)
WeightedSum(s, st, n) ==
    IF n = 0 THEN 0 ELSE WeightedSum(s, st, n - 1) + (s[n] - 1) * st[n]

\* a Tensor as the data model describes it
WellFormed ==
    /\ phase = "live"
    /\ ValidShape(shape)
    /\ Len(stride) = Len(shape)
    /\ SizeEq(ProductOf(shape), total_elements)
    /\ SizeEq(Len(elements), total_elements)

BuiltWith(c) == c.op \in {"Tensor", "initialize"}

\* C1: on a Tensor whose shape has every dimension >= 1, the flat offset at
\* computes for a coordinate inside the shape lies in 0..total_elements-1, and
\* two different such coordinates get different offsets.
C1_OffsetsInRangeAndDistinct ==
    (phase = "live" /\ ValidShape(shape)) =>
        /\ \A c \in ValidCoords(shape) :
             LET r == at(Self, c)
             IN /\ r.err = NoError
                /\ ~r.flat_index.big
                /\ 0 <= r.flat_index.low
                /\ InRange(r.flat_index, total_elements.low)
                /\ ~total_elements.big
        /\ \A c, d \in ValidCoords(shape) :
             c # d => at(Self, c).flat_index # at(Self, d).flat_index

C1_Witness ==
    /\ call.op = "at" /\ call.err = NoError
    /\ shape = <<2, 2>> /\ call.position = <<1, 1>>
    /\ call.slot = <<ToSizeT(3)>>

\* C2: after a Tensor is built from a valid shape and a buffer of product(shape)
\* elements, at on the coordinate at row-major place k succeeds and returns
\* element k of the buffer that was handed in.
C2_RoundTrip ==
    (/\ BuiltWith(call)
     /\ ValidShape(call.in_shape)
     /\ Len(call.in_elements) # 0
     /\ Len(call.in_elements) = ProductOf(call.in_shape)) =>
        /\ call.err = NoError /\ phase = "live"
        /\ \A c \in ValidCoords(call.in_shape) :
             LET r == at(Self, c)
             IN /\ r.err = NoError
                /\ InRange(r.flat_index, Len(elements))
                /\ read(Self, r.flat_index)
                     = call.in_elements[RowMajorPlace(call.in_shape, c, Len(c)) + 1]

C2_Witness ==
    /\ call.op = "at" /\ call.err = NoError
    /\ shape = <<2, 2>> /\ elements = Buf(4)
    /\ call.position = <<1, 0>> /\ call.ret = <<3>>

\* C3: for a non-empty shape whose entries are all >= 1, calculate_stride (with
\* the total left out or given as the shape's total) returns as many strides as
\* the shape has entries, the last of them 1, and the sum of (S[i]-1)*stride[i]
\* is the product of the shape minus 1; [2,3] gives [3,1], [2,2,2] gives [4,2,1].
C3_Strides ==
    (/\ call.op = "calculate_stride"
     /\ ValidShape(call.in_shape)
     /\ call.in_total \in {0, ProductOf(call.in_shape)}) =>
        /\ call.err = NoError
        /\ Len(call.out) = 1
        /\ LET st == call.out[1]
               S == call.in_shape
           IN /\ Len(st) = Len(S)
              /\ st[Len(st)] = 1
              /\ WeightedSum(S, st, Len(S)) = ProductOf(S) - 1
              /\ S = <<2, 3>> => st = <<3, 1>>
              /\ S = <<2, 2, 2>> => st = <<4, 2, 1>>

C3_Witness ==
    /\ call.op = "calculate_stride" /\ call.in_shape = <<2, 2, 2>>
    /\ call.in_total = 0 /\ call.out = << <<4, 2, 1>> >>

\* C4: Tensor(shape, elements) throws InvalidShape, and builds no Tensor, when
\* the shape is empty or has a dimension size <= 0, whatever the buffer.
C4_InvalidShapeRejected ==
    (call.op = "Tensor" /\ ~ValidShape(call.in_shape)) =>
        call.err = InvalidShape /\ phase = "none"

\* C5: at on a Tensor with a valid shape and a buffer of product(shape)
\* elements, with a position of the Tensor's rank one component of which is
\* negative or >= the dimension size, throws IndexOutOfRange, returns nothing
\* and reads no buffer slot.
C5_IndexOutOfRange ==
    (/\ call.op = "at"
     /\ ValidShape(shape) /\ SizeEq(Len(elements), total_elements)
     /\ Len(call.position) = Len(shape)
     /\ \E i \in 1..Len(shape) :
          ~(0 <= call.position[i] /\ call.position[i] < shape[i])) =>
        call.err = IndexOutOfRange /\ call.ret = <<>> /\ call.slot = <<>>

\* C6: a Tensor with a valid shape has, whatever calls were made on it and
\* whether they threw, as many strides as dimensions, total_elements =
\* product(shape) and total_elements = the length of its buffer.
C6_TensorInvariant ==
    (phase = "live" /\ ValidShape(shape)) =>
        /\ Len(stride) = Len(shape)
        /\ SizeEq(ProductOf(shape), total_elements)
        /\ SizeEq(Len(elements), total_elements)

\* C7: Tensor(shape, elements) with a valid shape and a non-empty buffer throws
\* ShapeMismatch when the buffer's length is not product(shape), and otherwise
\* builds a Tensor whose get_elements() is the buffer.
C7_ShapeMismatch ==
    (/\ call.op = "Tensor"
     /\ ValidShape(call.in_shape)
     /\ Len(call.in_elements) # 0) =>
        IF Len(call.in_elements) # ProductOf(call.in_shape)
        THEN call.err = ShapeMismatch /\ phase = "none"
        ELSE call.err = NoError /\ phase = "live" /\ elements = call.in_elements

C7_Witness ==
    /\ call.op = "Tensor" /\ call.in_shape = <<2, 2>>
    /\ call.in_elements = Buf(3) /\ call.err = ShapeMismatch

C9_DefaultFilled ==
    (/\ BuiltWith(call)
     /\ ValidShape(call.in_shape)
     /\ Len(call.in_elements) = 0) =>
        /\ call.err = NoError
        /\ Len(elements) = ProductOf(call.in_shape)
        /\ \A k \in 1..Len(elements) : elements[k] = DefaultT

\* C10: at with a position whose length is not the rank throws RankMismatch
\* before it looks at a coordinate or a buffer slot, and at, thrown or not,
\* leaves shape, stride, the buffer and total_elements as they were.
C10_RankMismatch ==
    [][call'.op = "at" =>
          /\ UNCHANGED fields
          /\ Len(call'.position) # Len(shape) =>
               /\ call'.err = RankMismatch
               /\ call'.examined = 0
               /\ call'.slot = <<>>
               /\ call'.ret = <<>>]_vars

C10_Witness ==
    /\ call.op = "at" /\ call.err = RankMismatch
    /\ shape = <<2, 2>> /\ call.position = <<1, 1, 0>>

====
